---- MODULE Spec2Model ----
(***************************************************************************)
(* Model of app.py of the Restaurant Nutrition Dashboard: the loader       *)
(* load_and_clean_data, the module-level table df it produces, and the     *)
(* Dash callbacks that query df.                                           *)
(*                                                                         *)
(* A pandas cell is a tagged record, so that a missing cell, a number and  *)
(* a text never compare equal: NaN, Num(n), Str(s).  A DataFrame is a      *)
(* sequence of rows in positional order; a row is a function from column   *)
(* names to cells and carries its pandas index label under "index".        *)
(* Numbers are integers (the dashboards' cells are small decimal counts);  *)
(* means are exact fractions and the rounded statistics are integers in    *)
(* hundredths.                                                             *)
(***************************************************************************)
EXTENDS Integers, Sequences, FiniteSets, TLC

VARIABLES
    csv,    \* the rows of ms_annual_data_2022.csv, as text cells
    df,     \* the module-level DataFrame df (app.py line 47)
    pc,     \* "start" before the module-level load, then "idle" / "responding"
    call,   \* the callback being answered and its arguments
    out,    \* the value (or exception) the callback produced
    page    \* the Explore page in the browser: its dropdowns and outputs,
            \* the callbacks Dash still has to run, and the user's last change

vars == <<csv, df, pc, call, out, page>>

(***************************************************************************)
(* Bounds of the model.                                                    *)
(***************************************************************************)
MaxCsvRows == 2     \* rows of a CSV file given to the loader specification
MaxRows == 3        \* rows of a CSV file given to the query specification
MaxN == 3           \* largest value typed into the top-n input

(***************************************************************************)
(* pandas values.                                                          *)
(***************************************************************************)
NaN == [t |-> "nan"]
Num(n) == [t |-> "num", v |-> n]
Str(s) == [t |-> "str", s |-> s]
None == "<None>"

isna(x) == x.t = "nan"
notna(x) == x.t # "nan"

\* The numerals that occur in the modelled files, and the number each reads as.
Numerals == ("1" :> 1) @@ ("2" :> 2) @@ ("3" :> 3)

\* pd.to_numeric(errors='coerce') on one cell.
to_numeric(x) ==
    IF x.t = "num" THEN x
    ELSE IF x.t = "str" /\ x.s \in DOMAIN Numerals THEN Num(Numerals[x.s])
    ELSE NaN

\* A numeric column times a constant: NaN propagates.
Times(x, k) == IF x.t = "num" THEN Num(x.v * k) ELSE NaN

(***************************************************************************)
(* Columns.                                                                *)
(***************************************************************************)
nutrition_columns == <<"carbohydrates_(g)", "total_fat_(g)", "protein_(g)">>
NutritionSet == {nutrition_columns[i] : i \in DOMAIN nutrition_columns}
columns_to_drop == {"notes"}
IdColumns == {"restaurant", "item_name", "food_category"}
CellColumns == {"item_description", "serving_size", "serving_size_unit"}
CsvColumns == IdColumns \cup CellColumns \cup columns_to_drop \cup NutritionSet

\* The subsequence of f at the positions in S, in order.
RECURSIVE SelectIdx(_, _, _)
SelectIdx(f, S, i) ==
    IF i > Len(f) THEN << >>
    ELSE IF i \in S THEN <<f[i]>> \o SelectIdx(f, S, i + 1)
    ELSE SelectIdx(f, S, i + 1)

Where(f, S) == SelectIdx(f, S, 1)

\* A row without its index label: what drop_duplicates compares.
Data(r) == [c \in (DOMAIN r) \ {"index"} |-> r[c]]

(***************************************************************************)
(* pd.read_csv: every row gets the RangeIndex label of its position; a     *)
(* column whose present cells are all numerals is read as numbers, any     *)
(* other column keeps its text.                                            *)
(***************************************************************************)
IsNumeral(x) == x.t = "str" /\ x.s \in DOMAIN Numerals

InferredNumeric(rows, c) ==
    \A i \in DOMAIN rows : isna(rows[i][c]) \/ IsNumeral(rows[i][c])

read_csv(rows) ==
    LET numeric == {c \in CsvColumns \ IdColumns : InferredNumeric(rows, c)}
    IN  [i \in DOMAIN rows |->
            [c \in CsvColumns \cup {"index"} |->
                IF c = "index" THEN i - 1
                ELSE IF c \in numeric THEN to_numeric(rows[i][c])
                ELSE rows[i][c]]]

(***************************************************************************)
(* load_and_clean_data, step by step.                                      *)
(***************************************************************************)
dropna_serving_size(f) == Where(f, {i \in DOMAIN f : notna(f[i]["serving_size"])})

drop_columns(f) ==
    [i \in DOMAIN f |-> [c \in (DOMAIN f[i]) \ columns_to_drop |-> f[i][c]]]

fillna_unit_mut(f) == f

fillna_unit(f) ==
    [i \in DOMAIN f |->
        [f[i] EXCEPT !["serving_size_unit"] = IF isna(@) THEN Str("Unit") ELSE @]]

\* DataFrame.drop_duplicates(): keep the first of the rows equal in every column.
drop_duplicates(f) ==
    Where(f, {i \in DOMAIN f : \A j \in 1..(i - 1) : Data(f[j]) # Data(f[i])})

coerce_nutrition(f) ==
    [i \in DOMAIN f |->
        [c \in DOMAIN f[i] |->
            IF c \in NutritionSet THEN to_numeric(f[i][c]) ELSE f[i][c]]]

macro_calories_mut(f) ==
    [i \in DOMAIN f |->
        f[i] @@ ("carb_calories" :> Times(f[i]["carbohydrates_(g)"], 4))
             @@ ("fat_calories" :> Times(f[i]["total_fat_(g)"], 4))
             @@ ("protein_calories" :> Times(f[i]["protein_(g)"], 4))]

macro_calories(f) ==
    [i \in DOMAIN f |->
        f[i] @@ ("carb_calories" :> Times(f[i]["carbohydrates_(g)"], 4))
             @@ ("fat_calories" :> Times(f[i]["total_fat_(g)"], 9))
             @@ ("protein_calories" :> Times(f[i]["protein_(g)"], 4))]

load_and_clean_data(rows) ==
    macro_calories(
        coerce_nutrition(
            drop_duplicates(
                fillna_unit(
                    drop_columns(
                        dropna_serving_size(
                            read_csv(rows)))))))

(***************************************************************************)
(* The CSV files the specifications start from.                            *)
(***************************************************************************)
CsvRow(r, i, cat, ss, unit, notes, carb, fat, prot) ==
    ("restaurant" :> r) @@ ("item_name" :> i) @@ ("food_category" :> cat)
    @@ ("item_description" :> NaN)
    @@ ("serving_size" :> ss) @@ ("serving_size_unit" :> unit)
    @@ ("notes" :> notes)
    @@ ("carbohydrates_(g)" :> carb) @@ ("total_fat_(g)" :> fat)
    @@ ("protein_(g)" :> prot)

\* Loader files: one menu item, every combination of present, absent,
\* well-formed and malformed cells.
LoaderRows ==
    { CsvRow("R1", "A", "c1", ss, unit, notes, carb, fat, prot) :
        ss \in {NaN, Str("1")},
        unit \in {NaN, Str("g")},
        notes \in {NaN, Str("n")},
        carb \in {Str("1"), Str("x"), Str("y")},
        fat \in {NaN, Str("2")},
        prot \in {Str("3"), Str("x")} }

NoCall == [cb |-> "none"]
NoOut == [kind |-> "none"]

\* The callbacks of the Explore page (lines 207-323).
ExploreCallbacks ==
    {"update_map", "update_category_dropdown", "update_item_dropdown",
     "autofill_restaurant_category", "display_item_info"}

\* explore_layout() as first rendered: nothing selected, the category and
\* item dropdowns without options, and Dash about to call every callback of
\* the page once.
FirstPage ==
    [restaurant |-> None, category |-> None, item |-> None,
     category_options |-> << >>, item_options |-> << >>,
     map_src |-> "", item_info |-> [kind |-> "None"],
     pending |-> ExploreCallbacks, last |-> "load"]

InitLoad ==
    /\ \E k \in 0..MaxCsvRows : csv \in [1..k -> LoaderRows]
    /\ df = << >>
    /\ pc = "start"
    /\ call = NoCall
    /\ out = NoOut
    /\ page = FirstPage

\* app.py line 47: df, nutrition_columns = load_and_clean_data(...)
LoadData ==
    /\ pc = "start"
    /\ df' = load_and_clean_data(csv)
    /\ pc' = "idle"
    /\ UNCHANGED <<csv, call, out, page>>

SpecLoad == InitLoad /\ [][LoadData]_vars

(***************************************************************************)
(* Helpers of the query callbacks.                                         *)
(***************************************************************************)
\* Python truthiness of a dropdown value: None and '' are falsy.
Truthy(s) == s # None /\ s # ""

\* The names that occur in the modelled files, in Python's string order.
Rank == ("A" :> 1) @@ ("B" :> 2) @@ ("R1" :> 3) @@ ("R2" :> 4)
        @@ ("c1" :> 5) @@ ("c2" :> 6)

\* sorted(S) of a set of names.
RECURSIVE sorted(_)
sorted(S) ==
    IF S = {} THEN << >>
    ELSE LET m == CHOOSE x \in S : \A y \in S : Rank[x] <= Rank[y]
         IN  <<m>> \o sorted(S \ {m})

\* Series.unique() as a set, and df[df[c] == v], df[df[c].isin(vs)].
unique(f, c) == {f[i][c] : i \in DOMAIN f}
Eq(f, c, v) == Where(f, {i \in DOMAIN f : f[i][c] = v})
IsIn(f, c, vs) == Where(f, {i \in DOMAIN f : \E k \in DOMAIN vs : f[i][c] = vs[k]})

\* What a callback hands back to Dash.
ReturnsNone == [kind |-> "None"]
IndexError == [kind |-> "error", exc |-> "IndexError"]
Options(names) == [kind |-> "options", options |-> names]
Graph(rows) == [kind |-> "graph", data |-> rows]

RECURSIVE Flatten(_)
Flatten(ss) == IF ss = << >> THEN << >> ELSE Head(ss) \o Flatten(Tail(ss))

(***************************************************************************)
(* Explore page.                                                           *)
(***************************************************************************)
\* update_category_dropdown: the category options.
category_options(d, selected_restaurant, selected_item) ==
    IF Truthy(selected_item) /\ ~Truthy(selected_restaurant)
    THEN LET item_rows == Eq(d, "item_name", selected_item)
         IN  IF Len(item_rows) = 0 THEN IndexError     \* .iloc[0] of no rows
             ELSE Options(<<item_rows[1]["food_category"]>>)
    ELSE IF Truthy(selected_restaurant)
    THEN Options(sorted(unique(Eq(d, "restaurant", selected_restaurant), "food_category")))
    ELSE Options(sorted(unique(d, "food_category")))

\* update_item_dropdown with "|" in place of "&" on line 247.
filtered_items_mut(d, selected_restaurant, selected_category) ==
    IF Truthy(selected_restaurant) /\ Truthy(selected_category)
    THEN Where(d, {i \in DOMAIN d : \/ d[i]["restaurant"] = selected_restaurant
                                    \/ d[i]["food_category"] = selected_category})
    ELSE IF Truthy(selected_restaurant) THEN Eq(d, "restaurant", selected_restaurant)
    ELSE IF Truthy(selected_category) THEN Eq(d, "food_category", selected_category)
    ELSE d

\* update_item_dropdown: the rows the item options are taken from.
filtered_items(d, selected_restaurant, selected_category) ==
    IF Truthy(selected_restaurant) /\ Truthy(selected_category)
    THEN Where(d, {i \in DOMAIN d : /\ d[i]["restaurant"] = selected_restaurant
                                    /\ d[i]["food_category"] = selected_category})
    ELSE IF Truthy(selected_restaurant) THEN Eq(d, "restaurant", selected_restaurant)
    ELSE IF Truthy(selected_category) THEN Eq(d, "food_category", selected_category)
    ELSE d

item_options(d, selected_restaurant, selected_category) ==
    Options(sorted(unique(filtered_items(d, selected_restaurant, selected_category),
                          "item_name")))

\* autofill_restaurant_category: the (restaurant, category) pair written back.
autofill(d, selected_item, current_restaurant, current_category) ==
    IF Truthy(selected_item)
    THEN LET item_row == Eq(d, "item_name", selected_item)
         IN  IF Len(item_row) = 0 THEN IndexError      \* .iloc[0] of no rows
             ELSE [kind |-> "values",
                   restaurant |->
                       IF \/ current_restaurant = None
                          \/ current_restaurant \notin unique(item_row, "restaurant")
                       THEN item_row[1]["restaurant"]
                       ELSE current_restaurant,
                   category |-> item_row[1]["food_category"]]
    ELSE [kind |-> "values", restaurant |-> current_restaurant,
          category |-> current_category]

\* display_item_info without its test of selected_item.
item_info_mut(d, selected_item) ==
    LET found == Eq(d, "item_name", selected_item)
    IN  IF Len(found) = 0 THEN IndexError
        ELSE [kind |-> "div", title |-> selected_item,
              restaurant |-> found[1]["restaurant"],
              food_category |-> found[1]["food_category"]]

\* display_item_info: the card of the first row that has the name.
item_info(d, selected_item) ==
    IF Truthy(selected_item)
    THEN LET found == Eq(d, "item_name", selected_item)
         IN  IF Len(found) = 0 THEN IndexError         \* .iloc[0] of no rows
             ELSE LET item_data == found[1]
                  IN  [kind |-> "div",
                       title |-> selected_item,
                       restaurant |-> item_data["restaurant"],
                       food_category |-> item_data["food_category"],
                       description |->
                           IF notna(item_data["item_description"])
                           THEN item_data["item_description"]
                           ELSE Str("No description available."),
                       serving_size |-> <<item_data["serving_size"],
                                          item_data["serving_size_unit"]>>,
                       pie |-> <<item_data["carb_calories"], item_data["fat_calories"],
                                 item_data["protein_calories"]>>,
                       table |-> Flatten([k \in DOMAIN nutrition_columns |->
                           IF notna(item_data[nutrition_columns[k]])
                           THEN <<[nutrient |-> nutrition_columns[k],
                                   amount |-> item_data[nutrition_columns[k]]]>>
                           ELSE << >>])]
    ELSE ReturnsNone

(***************************************************************************)
(* Compare page.                                                           *)
(***************************************************************************)
\* DataFrame.melt(id_vars=[id], value_vars=vars): one row per variable and
\* frame row, variable-major, missing values kept.
melt_mut(f, id, value_vars, var_name, value_name) ==
    Flatten([k \in DOMAIN value_vars |->
        LET kept == Where(f, {i \in DOMAIN f : notna(f[i][value_vars[k]])})
        IN  [i \in DOMAIN kept |->
                (id :> kept[i][id]) @@ (var_name :> value_vars[k])
                @@ (value_name :> kept[i][value_vars[k]])]])

melt(f, id, value_vars, var_name, value_name) ==
    Flatten([k \in DOMAIN value_vars |->
        [i \in DOMAIN f |->
            (id :> f[i][id]) @@ (var_name :> value_vars[k])
            @@ (value_name :> f[i][value_vars[k]])]])

compare_items(d, selected_items, selected_metrics) ==
    IF selected_items # << >> /\ selected_metrics # << >>
    THEN Graph(melt(IsIn(d, "item_name", selected_items), "item_name",
                    selected_metrics, "Nutrient", "Amount"))
    ELSE ReturnsNone

(***************************************************************************)
(* Analytics page: top-n.                                                  *)
(***************************************************************************)
Min2(a, b) == IF a < b THEN a ELSE b

\* df[['item_name', 'restaurant', nutrient]].dropna(subset=[nutrient])
top_n_columns_mut(d, nutrient) ==
    [i \in DOMAIN d |->
        [c \in {"index", "item_name", "restaurant", nutrient} |-> d[i][c]]]

top_n_columns(d, nutrient) ==
    LET known == Where(d, {i \in DOMAIN d : notna(d[i][nutrient])})
    IN  [i \in DOMAIN known |->
            [c \in {"index", "item_name", "restaurant", nutrient} |-> known[i][c]]]

Perms(n) == {p \in [1..n -> 1..n] : \A i, j \in 1..n : i # j => p[i] # p[j]}

\* DataFrame.sort_values(by=..., ascending=...) with its default
\* kind='quicksort', which is not a stable sort: the rows come out ordered
\* by the value, rows of equal value in any order.
InOrder(a, b, ascending) ==
    \/ isna(b)                                  \* na_position='last'
    \/ /\ notna(a)
       /\ IF ascending THEN a.v <= b.v ELSE a.v >= b.v

sort_values(f, by, ascending) ==
    { [k \in DOMAIN f |-> f[p[k]]] :
        p \in { q \in Perms(Len(f)) :
                  \A k \in 1..(Len(f) - 1) :
                      InOrder(f[q[k]][by], f[q[k + 1]][by], ascending) } }

\* DataFrame.head(n) for a positive n.
head(f, n) == SubSeq(f, 1, Min2(n, Len(f)))

(***************************************************************************)
(* Analytics page: grouped statistics.  A mean is an exact fraction        *)
(* Frac(n, d) in lowest terms; a statistic rounded by round(2) is          *)
(* Hundredths(h), the number h/100.                                        *)
(***************************************************************************)
Frac(n, d) == [t |-> "frac", n |-> n, d |-> d]
Hundredths(h) == [t |-> "num2", h |-> h]

RECURSIVE GCD(_, _)
GCD(a, b) == IF b = 0 THEN a ELSE GCD(b, a % b)

RECURSIVE Sum(_)
Sum(xs) == IF xs = << >> THEN 0 ELSE Head(xs) + Sum(Tail(xs))

RECURSIVE SumSq(_)
SumSq(xs) == IF xs = << >> THEN 0 ELSE Head(xs) * Head(xs) + SumSq(Tail(xs))

\* The numbers xs in ascending order.
RECURSIVE Ascending(_)
Ascending(xs) ==
    IF xs = << >> THEN << >>
    ELSE LET k == CHOOSE i \in DOMAIN xs : \A j \in DOMAIN xs : xs[i] <= xs[j]
         IN  <<xs[k]>> \o Ascending(Where(xs, (DOMAIN xs) \ {k}))

\* The known values of column c: every pandas reduction skips NaN.
known_values_mut(f, c) ==
    [i \in DOMAIN f |-> IF notna(f[i][c]) THEN f[i][c].v ELSE 0]

known_values(f, c) ==
    LET known == Where(f, {i \in DOMAIN f : notna(f[i][c])})
    IN  [i \in DOMAIN known |-> known[i][c].v]

\* Series.mean(): NaN for no value.
mean(xs) ==
    IF xs = << >> THEN NaN
    ELSE LET g == GCD(Sum(xs), Len(xs))
         IN  Frac(Sum(xs) \div g, Len(xs) \div g)

\* n/d (n >= 0, d > 0) to two decimals, ties to the even hundredth.
Round2(n, d) ==
    LET q == (100 * n) \div d
        r == (100 * n) % d
    IN  IF 2 * r < d THEN q
        ELSE IF 2 * r > d THEN q + 1
        ELSE IF q % 2 = 0 THEN q ELSE q + 1

\* The hundredth nearest to sqrt(n/d).
RECURSIVE SqrtHundredths(_, _, _)
SqrtHundredths(n, d, s) ==
    IF (2 * s + 1) * (2 * s + 1) * d > 40000 * n THEN s
    ELSE SqrtHundredths(n, d, s + 1)

agg_mean(xs) == IF xs = << >> THEN NaN ELSE Hundredths(Round2(Sum(xs), Len(xs)))

agg_median(xs) ==
    IF xs = << >> THEN NaN
    ELSE LET a == Ascending(xs)
             n == Len(xs)
         IN  IF n % 2 = 1 THEN Hundredths(100 * a[(n + 1) \div 2])
             ELSE Hundredths(50 * (a[n \div 2] + a[n \div 2 + 1]))

\* Sample standard deviation (ddof=1): NaN for fewer than two values.
agg_std_mut(xs) ==
    IF xs = << >> THEN NaN
    ELSE Hundredths(SqrtHundredths(Len(xs) * SumSq(xs) - Sum(xs) * Sum(xs),
                                   Len(xs) * Len(xs), 0))

agg_std(xs) ==
    IF Len(xs) < 2 THEN NaN
    ELSE Hundredths(SqrtHundredths(Len(xs) * SumSq(xs) - Sum(xs) * Sum(xs),
                                   Len(xs) * (Len(xs) - 1), 0))

agg_min(xs) == IF xs = << >> THEN NaN ELSE Hundredths(100 * Ascending(xs)[1])
agg_max(xs) == IF xs = << >> THEN NaN ELSE Hundredths(100 * Ascending(xs)[Len(xs)])

\* df.groupby(key): the group keys in sorted order.
group_keys(f, key) == sorted(unique(f, key))

\* update_statistical_summary_output
statistical_summary(d, selected_nutrient, group_by) ==
    IF Truthy(selected_nutrient) /\ Truthy(group_by)
    THEN LET keys == group_keys(d, group_by)
         IN  [kind |-> "table",
              rows |-> [g \in DOMAIN keys |->
                  LET xs == known_values(Eq(d, group_by, keys[g]), selected_nutrient)
                  IN  [group |-> keys[g], mean |-> agg_mean(xs),
                       median |-> agg_median(xs), std |-> agg_std(xs),
                       min |-> agg_min(xs), max |-> agg_max(xs)]]]
    ELSE [kind |-> "message"]

\* filtered_df.groupby(key)[nutrients].mean().reset_index()
group_means(f, key, nutrients) ==
    LET keys == group_keys(f, key)
    IN  [g \in DOMAIN keys |->
            [c \in {key} \cup {nutrients[k] : k \in DOMAIN nutrients} |->
                IF c = key THEN keys[g]
                ELSE mean(known_values(Eq(f, key, keys[g]), c))]]

\* update_restaurant_averages_output
restaurant_averages(d, selected_restaurants, selected_nutrients) ==
    IF selected_restaurants # << >> /\ selected_nutrients # << >>
    THEN Graph(melt(group_means(IsIn(d, "restaurant", selected_restaurants),
                                "restaurant", selected_nutrients),
                    "restaurant", selected_nutrients, "Nutrient", "Average Amount"))
    ELSE ReturnsNone

\* update_category_comparison_output
category_comparison(d, selected_nutrient, selected_categories) ==
    IF Truthy(selected_nutrient) /\ selected_categories # << >>
    THEN Graph(group_means(IsIn(d, "food_category", selected_categories),
                           "food_category", <<selected_nutrient>>))
    ELSE ReturnsNone

\* update_distribution_output: px.box(df, x=group_by, y=selected_nutrient)
distribution(d, selected_nutrient, group_by) ==
    IF Truthy(selected_nutrient) /\ Truthy(group_by)
    THEN Graph([i \in DOMAIN d |->
                   [c \in {group_by, selected_nutrient} |-> d[i][c]]])
    ELSE ReturnsNone

(***************************************************************************)
(* The dashboard: df is loaded once, then Dash answers one callback        *)
(* request at a time.                                                      *)
(***************************************************************************)
\* Query files: three menu entries (one item name sold by two restaurants
\* under different categories), each with an absent, a small or a larger
\* carbohydrate count; every other cell is present and well-formed.
Menu == { <<"R1", "A", "c1">>, <<"R2", "A", "c2">>, <<"R1", "B", "c2">> }

QueryRows ==
    { CsvRow(m[1], m[2], m[3], Str("1"), Str("g"), NaN, carb, Str("2"), Str("3")) :
        m \in Menu, carb \in {NaN, Str("1"), Str("2")} }

\* The values the browser sends.
RestaurantArgs == {None, "R1", "R2"}
CategoryArgs == {None, "c1", "c2"}
ItemArgs == {None, "A", "B"}
NutrientArgs == {None, "carbohydrates_(g)"}
GroupByArgs == {None, "restaurant", "food_category"}
OrderArgs == {"asc", "desc"}
\* Multi-select values; a cleared multi-select (None or []) is << >>.
RestaurantLists == {<< >>, <<"R1">>, <<"R2">>, <<"R1", "R2">>}
CategoryLists == {<< >>, <<"c1">>, <<"c2">>, <<"c1", "c2">>}
ItemLists == {<< >>, <<"A">>, <<"B">>, <<"A", "B">>}
NutrientLists == {<< >>, <<"carbohydrates_(g)">>, <<"carbohydrates_(g)", "protein_(g)">>}

Init ==
    /\ \E k \in 0..MaxRows : csv \in [1..k -> QueryRows]
    /\ df = << >>
    /\ pc = "start"
    /\ call = NoCall
    /\ out = NoOut
    /\ page = FirstPage

Answer(c, o) ==
    /\ call' = c
    /\ out' = o
    /\ pc' = "responding"

update_category_dropdown ==
    /\ pc = "idle"
    /\ \E r \in RestaurantArgs, it \in ItemArgs :
          Answer([cb |-> "update_category_dropdown", selected_restaurant |-> r,
                  selected_item |-> it],
                 category_options(df, r, it))
    /\ UNCHANGED <<csv, df, page>>

update_item_dropdown ==
    /\ pc = "idle"
    /\ \E r \in RestaurantArgs, c \in CategoryArgs :
          Answer([cb |-> "update_item_dropdown", selected_restaurant |-> r,
                  selected_category |-> c],
                 item_options(df, r, c))
    /\ UNCHANGED <<csv, df, page>>

autofill_restaurant_category ==
    /\ pc = "idle"
    /\ \E it \in ItemArgs, r \in RestaurantArgs, c \in CategoryArgs :
          Answer([cb |-> "autofill_restaurant_category", selected_item |-> it,
                  current_restaurant |-> r, current_category |-> c],
                 autofill(df, it, r, c))
    /\ UNCHANGED <<csv, df, page>>

display_item_info ==
    /\ pc = "idle"
    /\ \E it \in ItemArgs :
          Answer([cb |-> "display_item_info", selected_item |-> it],
                 item_info(df, it))
    /\ UNCHANGED <<csv, df, page>>

update_compare_output ==
    /\ pc = "idle"
    /\ \E its \in ItemLists, ms \in NutrientLists :
          Answer([cb |-> "update_compare_output", selected_items |-> its,
                  selected_metrics |-> ms],
                 compare_items(df, its, ms))
    /\ UNCHANGED <<csv, df, page>>

update_distribution_output ==
    /\ pc = "idle"
    /\ \E nu \in NutrientArgs, g \in GroupByArgs :
          Answer([cb |-> "update_distribution_output", selected_nutrient |-> nu,
                  group_by |-> g],
                 distribution(df, nu, g))
    /\ UNCHANGED <<csv, df, page>>

\* A mis-written top-n that sorts the shared table in place.
update_top_n_output_mut ==
    /\ pc = "idle"
    /\ \E nu \in NutrientArgs \ {None}, n \in 1..MaxN, order \in OrderArgs :
          \E sorted_df \in sort_values(Where(df, {i \in DOMAIN df : notna(df[i][nu])}),
                                       nu, order = "asc") :
              /\ Answer([cb |-> "update_top_n_output", selected_nutrient |-> nu,
                         n |-> n, order |-> order],
                        Graph(head(sorted_df, n)))
              /\ df' = sorted_df
    /\ UNCHANGED <<csv, page>>

\* n is 0 for an empty input (None), which is falsy like 0.
update_top_n_output ==
    /\ pc = "idle"
    /\ \E nu \in NutrientArgs, n \in 0..MaxN, order \in OrderArgs :
          LET c == [cb |-> "update_top_n_output", selected_nutrient |-> nu,
                    n |-> n, order |-> order]
          IN  IF Truthy(nu) /\ n # 0
              THEN \E sorted_df \in sort_values(top_n_columns(df, nu), nu, order = "asc") :
                       Answer(c, Graph(head(sorted_df, n)))
              ELSE Answer(c, ReturnsNone)
    /\ UNCHANGED <<csv, df, page>>

update_restaurant_averages_output ==
    /\ pc = "idle"
    /\ \E rs \in RestaurantLists, ns \in NutrientLists :
          Answer([cb |-> "update_restaurant_averages_output",
                  selected_restaurants |-> rs, selected_nutrients |-> ns],
                 restaurant_averages(df, rs, ns))
    /\ UNCHANGED <<csv, df, page>>

update_category_comparison_output ==
    /\ pc = "idle"
    /\ \E nu \in NutrientArgs, cs \in CategoryLists :
          Answer([cb |-> "update_category_comparison_output",
                  selected_nutrient |-> nu, selected_categories |-> cs],
                 category_comparison(df, nu, cs))
    /\ UNCHANGED <<csv, df, page>>

update_statistical_summary_output ==
    /\ pc = "idle"
    /\ \E nu \in NutrientArgs, g \in GroupByArgs :
          Answer([cb |-> "update_statistical_summary_output",
                  selected_nutrient |-> nu, group_by |-> g],
                 statistical_summary(df, nu, g))
    /\ UNCHANGED <<csv, df, page>>

\* The response is sent; the server waits for the next request.
Respond ==
    /\ pc = "responding"
    /\ pc' = "idle"
    /\ call' = NoCall
    /\ out' = NoOut
    /\ UNCHANGED <<csv, df, page>>

Next ==
    \/ LoadData
    \/ update_category_dropdown
    \/ update_item_dropdown
    \/ autofill_restaurant_category
    \/ display_item_info
    \/ update_compare_output
    \/ update_distribution_output
    \/ update_top_n_output
    \/ update_restaurant_averages_output
    \/ update_category_comparison_output
    \/ update_statistical_summary_output
    \/ Respond

Spec == Init /\ [][Next]_vars

(***************************************************************************)
(* The Explore page in the browser: three dropdowns, the map and the item  *)
(* card, wired by the five callbacks of lines 207-323.  A change of a      *)
(* property makes Dash call every callback that has it as an Input; what a *)
(* callback returns is written to its Outputs, which are changes in turn.  *)
(* page.pending holds the callbacks Dash has still to call.                *)
(***************************************************************************)
\* The Input(...) properties of each callback (State is no trigger).
Inputs(cb) ==
    CASE cb = "update_map" -> {"restaurant-dropdown.value"}
      [] cb = "update_category_dropdown" ->
             {"restaurant-dropdown.value", "item-dropdown.value"}
      [] cb = "update_item_dropdown" ->
             {"restaurant-dropdown.value", "category-dropdown.value"}
      [] cb = "autofill_restaurant_category" -> {"item-dropdown.value"}
      [] cb = "display_item_info" -> {"item-dropdown.value"}

\* update_item_dropdown declared as if it also wrote the item selection.
Outputs_mut(cb) ==
    CASE cb = "update_map" -> {"google-map.src"}
      [] cb = "update_category_dropdown" -> {"category-dropdown.options"}
      [] cb = "update_item_dropdown" ->
             {"item-dropdown.options", "item-dropdown.value"}
      [] cb = "autofill_restaurant_category" ->
             {"restaurant-dropdown.value", "category-dropdown.value"}
      [] cb = "display_item_info" -> {"item-info-output.children"}

\* The Output(...) properties of each callback.
Outputs(cb) ==
    CASE cb = "update_map" -> {"google-map.src"}
      [] cb = "update_category_dropdown" -> {"category-dropdown.options"}
      [] cb = "update_item_dropdown" -> {"item-dropdown.options"}
      [] cb = "autofill_restaurant_category" ->
             {"restaurant-dropdown.value", "category-dropdown.value"}
      [] cb = "display_item_info" -> {"item-info-output.children"}

\* The callbacks Dash calls when the properties in props have been written.
Triggered(props) == {cb \in ExploreCallbacks : Inputs(cb) \cap props # {}}

\* update_map: the src of the map frame.
google_map_url(selected_restaurant) ==
    IF selected_restaurant = None THEN ""
    ELSE CASE selected_restaurant = "R1" ->
                  "https://www.google.com/maps/embed/v1/search?key=INSERTKEY=R1"
           [] selected_restaurant = "R2" ->
                  "https://www.google.com/maps/embed/v1/search?key=INSERTKEY=R2"

\* Line 104: the options of the restaurant dropdown.
restaurant_options(d) == sorted(unique(d, "restaurant"))

\* What a dropdown lets the user pick: one of its options, or nothing.
Choices(options) == {options[k] : k \in DOMAIN options} \cup {None}

\* Tables of the Explore page: the menu with every cell present.
ExploreRows ==
    { CsvRow(m[1], m[2], m[3], Str("1"), Str("g"), NaN, Str("1"), Str("2"), Str("3")) :
        m \in Menu }

InitExplore ==
    /\ \E k \in 0..MaxRows : csv \in [1..k -> ExploreRows]
    /\ df = << >>
    /\ pc = "start"
    /\ call = NoCall
    /\ out = NoOut
    /\ page = FirstPage

\* The user changes one dropdown; Dash queues the callbacks that take it as
\* an Input.
UserChange(field, prop, v) ==
    /\ v # page[field]
    /\ page' = [page EXCEPT ![field] = v,
                            !.pending = Triggered({prop}),
                            !.last = field]

UserSelectRestaurant ==
    /\ pc = "idle"
    /\ page.pending = {}
    /\ \E r \in Choices(restaurant_options(df)) :
          UserChange("restaurant", "restaurant-dropdown.value", r)
    /\ UNCHANGED <<csv, df, pc, call, out>>

UserSelectCategory ==
    /\ pc = "idle"
    /\ page.pending = {}
    /\ \E c \in Choices(page.category_options) :
          UserChange("category", "category-dropdown.value", c)
    /\ UNCHANGED <<csv, df, pc, call, out>>

UserSelectItem ==
    /\ pc = "idle"
    /\ page.pending = {}
    /\ \E it \in Choices(page.item_options) :
          UserChange("item", "item-dropdown.value", it)
    /\ UNCHANGED <<csv, df, pc, call, out>>

\* Dash has called cb and got o back: o is written to the Outputs of cb (the
\* page as written is p) and their callbacks are queued; when cb raised,
\* nothing is written.
Called(cb, o, p) ==
    /\ cb \in page.pending
    /\ page' = IF o.kind = "error"
               THEN [page EXCEPT !.pending = @ \ {cb}]
               ELSE [p EXCEPT !.pending = (@ \ {cb}) \cup Triggered(Outputs(cb))]

run_update_map ==
    /\ pc = "idle"
    /\ LET o == [kind |-> "src", src |-> google_map_url(page.restaurant)]
       IN  Called("update_map", o, [page EXCEPT !.map_src = o.src])
    /\ UNCHANGED <<csv, df, pc, call, out>>

run_update_category_dropdown ==
    /\ pc = "idle"
    /\ LET o == category_options(df, page.restaurant, page.item)
       IN  Called("update_category_dropdown", o,
                  [page EXCEPT !.category_options = o.options])
    /\ UNCHANGED <<csv, df, pc, call, out>>

run_update_item_dropdown ==
    /\ pc = "idle"
    /\ LET o == item_options(df, page.restaurant, page.category)
       IN  Called("update_item_dropdown", o,
                  [page EXCEPT !.item_options = o.options])
    /\ UNCHANGED <<csv, df, pc, call, out>>

run_autofill_restaurant_category ==
    /\ pc = "idle"
    /\ LET o == autofill(df, page.item, page.restaurant, page.category)
       IN  Called("autofill_restaurant_category", o,
                  [page EXCEPT !.restaurant = o.restaurant,
                               !.category = o.category])
    /\ UNCHANGED <<csv, df, pc, call, out>>

run_display_item_info ==
    /\ pc = "idle"
    /\ LET o == item_info(df, page.item)
       IN  Called("display_item_info", o, [page EXCEPT !.item_info = o])
    /\ UNCHANGED <<csv, df, pc, call, out>>

RunCallback ==
    \/ run_update_map
    \/ run_update_category_dropdown
    \/ run_update_item_dropdown
    \/ run_autofill_restaurant_category
    \/ run_display_item_info

NextExplore ==
    \/ LoadData
    \/ UserSelectRestaurant
    \/ UserSelectCategory
    \/ UserSelectItem
    \/ RunCallback

\* Dash calls every queued callback: the renderer does not leave a queued
\* callback uncalled.
SpecExplore == InitExplore /\ [][NextExplore]_vars /\ WF_vars(RunCallback)

(***************************************************************************)
(* Claims about the loader, checked under SpecLoad.                        *)
(***************************************************************************)
Loaded == pc # "start"

\* The row of the file a row of df was read from (its index label).
Origin(r) == csv[r["index"] + 1]

\* C1: every row of the loaded table has a serving_size and a
\* serving_size_unit, and a unit absent from the file reads as "Unit".
C1_ServingNonNull ==
    Loaded =>
        \A i \in DOMAIN df :
            /\ notna(df[i]["serving_size"])
            /\ notna(df[i]["serving_size_unit"])
            /\ isna(Origin(df[i])["serving_size_unit"])
                    => df[i]["serving_size_unit"] = Str("Unit")

C1_Witness ==
    /\ Loaded
    /\ \E i \in DOMAIN df :
            /\ isna(Origin(df[i])["serving_size_unit"])
            /\ df[i]["serving_size_unit"] = Str("Unit")
    /\ \E k \in DOMAIN csv : isna(csv[k]["serving_size"])

\* C2: no two rows of the loaded table are identical across all retained
\* columns.
C2_NoDuplicateRows ==
    Loaded =>
        \A i, j \in DOMAIN df : i # j => Data(df[i]) # Data(df[j])

\* The file rows a loaded row stands for: the rows that have a serving_size
\* and the same retained cells as the row's origin.
Retained(row) == [c \in CsvColumns \ columns_to_drop |-> row[c]]

MacroSource ==
    ("carb_calories" :> "carbohydrates_(g)") @@ ("fat_calories" :> "total_fat_(g)")
    @@ ("protein_calories" :> "protein_(g)")

MacroFactor == ("carb_calories" :> 4) @@ ("fat_calories" :> 9) @@ ("protein_calories" :> 4)

\* C3: in every loaded row a derived calorie field is its source nutrient
\* times 4, 9 or 4 when the file gives the nutrient as a number, and is
\* unknown (not zero) when the file gives none; and every file row that has
\* a serving_size is loaded, whether or not its nutrients are known.
C3_MacroCalories ==
    Loaded =>
        /\ \A i \in DOMAIN df : \A d \in DOMAIN MacroSource :
                LET cell == Origin(df[i])[MacroSource[d]]
                IN  IF IsNumeral(cell)
                    THEN /\ df[i][MacroSource[d]] = Num(Numerals[cell.s])
                         /\ df[i][d] = Num(Numerals[cell.s] * MacroFactor[d])
                    ELSE /\ df[i][MacroSource[d]] = NaN
                         /\ df[i][d] = NaN
        /\ \A k \in DOMAIN csv :
                notna(csv[k]["serving_size"]) =>
                    \E i \in DOMAIN df : Retained(Origin(df[i])) = Retained(csv[k])

C3_Witness ==
    /\ Loaded
    /\ \E i \in DOMAIN df :
            /\ df[i]["carb_calories"] = NaN
            /\ df[i]["fat_calories"] = Num(18)
            /\ df[i]["protein_calories"] = Num(12)
    /\ \E i \in DOMAIN df :
            /\ df[i]["carb_calories"] = Num(4)
            /\ df[i]["fat_calories"] = NaN

(***************************************************************************)
(* Claims about the query callbacks, checked under Spec.                   *)
(***************************************************************************)
Answering(cb) == pc = "responding" /\ call.cb = cb

\* The positions of the rows of df in group g of column key whose value in
\* column c is known, and those values.
KnownIn(key, g, c) == {i \in DOMAIN df : df[i][key] = g /\ notna(df[i][c])}
ValuesIn(key, g, c) ==
    LET rows == Where(df, KnownIn(key, g, c)) IN [i \in DOMAIN rows |-> rows[i][c].v]

\* C4: once loaded, df is never changed by any callback.
C4_TableNeverChanges == [][pc # "start" => df' = df]_vars

C4_Witness ==
    /\ Answering("update_top_n_output")
    /\ out.kind = "graph"
    /\ Len(out.data) = 2
    /\ Len(df) = 3
    /\ df = load_and_clean_data(csv)
    /\ out.data[1]["index"] > out.data[2]["index"]

\* C5: top-n returns rows of df with a known value of the nutrient, each at
\* most once, ordered by the value in the requested direction, as many as
\* min(n, known rows); no row left out has a value that ranks before a row
\* returned; with n at least the number of known rows the rows returned are
\* all the known rows, in either order.
C5_TopN ==
    (Answering("update_top_n_output") /\ Truthy(call.selected_nutrient) /\ call.n > 0) =>
        LET nu == call.selected_nutrient
            rows == out.data
            known == {i \in DOMAIN df : notna(df[i][nu])}
            taken == {rows[k]["index"] : k \in DOMAIN rows}
        IN  /\ out.kind = "graph"
            /\ Len(rows) = Min2(call.n, Cardinality(known))
            /\ Cardinality(taken) = Len(rows)
            /\ \A k \in DOMAIN rows :
                   /\ notna(rows[k][nu])
                   /\ \E i \in known :
                          /\ df[i]["index"] = rows[k]["index"]
                          /\ df[i]["item_name"] = rows[k]["item_name"]
                          /\ df[i]["restaurant"] = rows[k]["restaurant"]
                          /\ df[i][nu] = rows[k][nu]
            /\ \A k \in 1..(Len(rows) - 1) :
                   IF call.order = "asc"
                   THEN rows[k][nu].v <= rows[k + 1][nu].v
                   ELSE rows[k][nu].v >= rows[k + 1][nu].v
            /\ \A i \in known : df[i]["index"] \notin taken =>
                   \A k \in DOMAIN rows :
                       IF call.order = "asc"
                       THEN rows[k][nu].v <= df[i][nu].v
                       ELSE rows[k][nu].v >= df[i][nu].v
            /\ call.n >= Cardinality(known) =>
                   taken = {df[i]["index"] : i \in known}

C5_Witness ==
    /\ Answering("update_top_n_output")
    /\ call.n = 1 /\ call.order = "desc"
    /\ out.kind = "graph"
    /\ Len(out.data) = 1
    /\ out.data[1]["carbohydrates_(g)"] = Num(2)
    /\ \E i \in DOMAIN df : df[i]["carbohydrates_(g)"] = Num(1)
    /\ \E i \in DOMAIN df : isna(df[i]["carbohydrates_(g)"])

\* C6: in top-n, rows of equal value keep the order they have in df, among
\* the rows returned and at the cut-off after the n-th row.
C6_StableTies ==
    (Answering("update_top_n_output") /\ out.kind = "graph") =>
        LET nu == call.selected_nutrient
            rows == out.data
            taken == {rows[k]["index"] : k \in DOMAIN rows}
        IN  /\ \A k, l \in DOMAIN rows :
                   (k < l /\ rows[k][nu] = rows[l][nu])
                       => rows[k]["index"] < rows[l]["index"]
            /\ \A i \in DOMAIN df : \A k \in DOMAIN rows :
                   (df[i]["index"] \notin taken /\ df[i][nu] = rows[k][nu])
                       => rows[k]["index"] < df[i]["index"]

\* C7: the statistical summary has one row per group of the group field;
\* each row's statistics are those of the known values of the nutrient in
\* the group, to two decimals; with no known value all five are unknown and
\* nothing is raised; with one known value the standard deviation is unknown.
C7_StatisticalSummary ==
    (/\ Answering("update_statistical_summary_output")
     /\ Truthy(call.selected_nutrient) /\ Truthy(call.group_by)) =>
        /\ out.kind = "table"
        /\ {out.rows[k].group : k \in DOMAIN out.rows} = unique(df, call.group_by)
        /\ Len(out.rows) = Cardinality(unique(df, call.group_by))
        /\ \A k \in DOMAIN out.rows :
               LET r == out.rows[k]
                   xs == ValuesIn(call.group_by, r.group, call.selected_nutrient)
                   n == Len(xs)
                   hs == [j \in DOMAIN xs |-> 100 * xs[j]]
               IN  IF n = 0
                   THEN /\ r.mean = NaN /\ r.median = NaN /\ r.std = NaN
                        /\ r.min = NaN /\ r.max = NaN
                   ELSE /\ r.mean.t = "num2" /\ r.median.t = "num2"
                        /\ r.min.t = "num2" /\ r.max.t = "num2"
                        \* the mean is the hundredth nearest to sum/n
                        /\ 2 * (r.mean.h * n - Sum(hs)) <= n
                        /\ 2 * (Sum(hs) - r.mean.h * n) <= n
                        \* min and max are values, and bound every value
                        /\ \E j \in DOMAIN hs : hs[j] = r.min.h
                        /\ \E j \in DOMAIN hs : hs[j] = r.max.h
                        /\ \A j \in DOMAIN hs : r.min.h <= hs[j] /\ hs[j] <= r.max.h
                        \* at least half of the values lie on each side of the median
                        /\ 2 * Cardinality({j \in DOMAIN hs : hs[j] <= r.median.h}) >= n
                        /\ 2 * Cardinality({j \in DOMAIN hs : hs[j] >= r.median.h}) >= n
                        /\ n <= 2 => r.median.h * n = Sum(hs)
                        /\ n % 2 = 1 => \E j \in DOMAIN hs : hs[j] = r.median.h
                        \* the sample standard deviation, unknown for one value
                        /\ IF n = 1 THEN r.std = NaN
                           ELSE LET num == n * SumSq(xs) - Sum(xs) * Sum(xs)
                                    den == n * (n - 1)
                                    s == r.std.h
                                IN  /\ r.std.t = "num2"
                                    /\ s >= 0
                                    /\ (s > 0 => (2 * s - 1) * (2 * s - 1) * den <= 40000 * num)
                                    /\ 40000 * num <= (2 * s + 1) * (2 * s + 1) * den

C7_Witness ==
    /\ Answering("update_statistical_summary_output")
    /\ out.kind = "table"
    /\ call.group_by = "restaurant"
    /\ Len(out.rows) = 2
    /\ out.rows[1].mean = Hundredths(150)
    /\ out.rows[1].std = Hundredths(71)
    /\ out.rows[2].mean = NaN /\ out.rows[2].std = NaN /\ out.rows[2].max = NaN
\* The mean a groupAverage cell must hold for group g of column key and
\* nutrient c: unknown for no known value, else a fraction equal to
\* sum/count of the known values, which for one known value is that value.
IsGroupMean(cell, key, g, c) ==
    LET xs == ValuesIn(key, g, c)
    IN  IF xs = << >> THEN cell = NaN
        ELSE /\ cell.t = "frac"
             /\ cell.d > 0
             /\ cell.n * Len(xs) = Sum(xs) * cell.d
             /\ Len(xs) = 1 => cell = Frac(xs[1], 1)

\* C8: the restaurant averages and the category comparison hold, for each
\* selected group present in df and each nutrient, the mean of the known
\* values only: the value itself for one known value, unknown (not zero)
\* for none.
C8_GroupAverage ==
    /\ (/\ Answering("update_restaurant_averages_output")
        /\ call.selected_restaurants # << >> /\ call.selected_nutrients # << >>) =>
           LET groups == {df[i]["restaurant"] : i \in DOMAIN df}
                             \cap {call.selected_restaurants[k] :
                                       k \in DOMAIN call.selected_restaurants}
               ns == call.selected_nutrients
           IN  /\ out.kind = "graph"
               /\ Len(out.data) = Len(ns) * Cardinality(groups)
               /\ \A g \in groups : \A k \in DOMAIN ns :
                      \E j \in DOMAIN out.data :
                          /\ out.data[j]["restaurant"] = g
                          /\ out.data[j]["Nutrient"] = ns[k]
               /\ \A j \in DOMAIN out.data :
                      /\ out.data[j]["restaurant"] \in groups
                      /\ IsGroupMean(out.data[j]["Average Amount"], "restaurant",
                                     out.data[j]["restaurant"], out.data[j]["Nutrient"])
    /\ (/\ Answering("update_category_comparison_output")
        /\ Truthy(call.selected_nutrient) /\ call.selected_categories # << >>) =>
           LET groups == {df[i]["food_category"] : i \in DOMAIN df}
                             \cap {call.selected_categories[k] :
                                       k \in DOMAIN call.selected_categories}
           IN  /\ out.kind = "graph"
               /\ Len(out.data) = Cardinality(groups)
               /\ {out.data[j]["food_category"] : j \in DOMAIN out.data} = groups
               /\ \A j \in DOMAIN out.data :
                      IsGroupMean(out.data[j][call.selected_nutrient], "food_category",
                                  out.data[j]["food_category"], call.selected_nutrient)

C8_Witness ==
    /\ Answering("update_restaurant_averages_output")
    /\ out.kind = "graph"
    /\ call.selected_nutrients = <<"carbohydrates_(g)">>
    /\ Len(out.data) = 2
    /\ out.data[1]["Average Amount"] = Frac(2, 1)
    /\ out.data[2]["Average Amount"] = NaN
    /\ \E i \in DOMAIN df :
           df[i]["restaurant"] = "R1" /\ isna(df[i]["carbohydrates_(g)"])

\* C9 as claimed: every row the comparison returns holds a known value.
C9_OnlyKnownValues ==
    (Answering("update_compare_output") /\ out.kind = "graph") =>
        \A j \in DOMAIN out.data : notna(out.data[j]["Amount"])

\* C9 as amended: given both lists non-empty, the comparison returns one
\* (item, metric, value) row for every requested metric and every row of df
\* whose name is requested, metric by metric in table order; the value is
\* the table's, so an unknown value gives a row whose value is unknown; the
\* result is empty only when no row of df has a requested name.
C9_CompareRows ==
    (/\ Answering("update_compare_output")
     /\ call.selected_items # << >> /\ call.selected_metrics # << >>) =>
        LET ms == call.selected_metrics
            match == {i \in DOMAIN df :
                         \E k \in DOMAIN call.selected_items :
                             df[i]["item_name"] = call.selected_items[k]}
            m == Cardinality(match)
            \* the position in df of the j-th matching row
            nth(j) == CHOOSE i \in match :
                          Cardinality({i2 \in match : i2 <= i}) = j
        IN  /\ out.kind = "graph"
            /\ Len(out.data) = Len(ms) * m
            /\ \A k \in DOMAIN ms : \A j \in 1..m :
                   LET r == out.data[(k - 1) * m + j]
                   IN  /\ r["item_name"] = df[nth(j)]["item_name"]
                       /\ r["Nutrient"] = ms[k]
                       /\ r["Amount"] = df[nth(j)][ms[k]]
            /\ (out.data = << >>) <=> (match = {})

C9_Witness ==
    /\ Answering("update_compare_output")
    /\ out.kind = "graph"
    /\ call.selected_items = <<"A", "B">>
    /\ Len(out.data) = 4
    /\ out.data[1]["Amount"] = NaN
    /\ out.data[2]["Amount"] = Num(2)
    /\ out.data[3]["Amount"] = Num(3)

\* C10: looking up an item name that no row of df has raises no error
\* (stated for a table that has rows).
C10_NotFoundNeverRaises ==
    (/\ pc = "responding"
     /\ df # << >>
     /\ call.cb \in {"display_item_info", "autofill_restaurant_category",
                     "update_category_dropdown"}
     /\ Truthy(call.selected_item)
     /\ call.selected_item \notin unique(df, "item_name")) =>
        out.kind # "error"

\* C11: a callback called without a required parameter (no item, an empty
\* item or metric list, no nutrient, no group field, no n) raises nothing
\* and returns a neutral result: nothing to render (None), the prompt of the
\* statistical summary, or for the autofill the selection as it was.
C11_EmptySelection ==
    pc = "responding" =>
        /\ (call.cb = "display_item_info" /\ ~Truthy(call.selected_item))
               => out = ReturnsNone
        /\ (/\ call.cb = "update_compare_output"
            /\ (call.selected_items = << >> \/ call.selected_metrics = << >>))
               => out = ReturnsNone
        /\ (/\ call.cb = "update_top_n_output"
            /\ (~Truthy(call.selected_nutrient) \/ call.n = 0))
               => out = ReturnsNone
        /\ (/\ call.cb = "update_restaurant_averages_output"
            /\ (call.selected_restaurants = << >> \/ call.selected_nutrients = << >>))
               => out = ReturnsNone
        /\ (/\ call.cb = "update_category_comparison_output"
            /\ (~Truthy(call.selected_nutrient) \/ call.selected_categories = << >>))
               => out = ReturnsNone
        /\ (/\ call.cb = "update_distribution_output"
            /\ (~Truthy(call.selected_nutrient) \/ ~Truthy(call.group_by)))
               => out = ReturnsNone
        /\ (/\ call.cb = "update_statistical_summary_output"
            /\ (~Truthy(call.selected_nutrient) \/ ~Truthy(call.group_by)))
               => out = [kind |-> "message"]
        /\ (call.cb = "autofill_restaurant_category" /\ ~Truthy(call.selected_item))
               => out = [kind |-> "values", restaurant |-> call.current_restaurant,
                         category |-> call.current_category]

C11_Witness ==
    /\ Answering("display_item_info")
    /\ call.selected_item = None
    /\ out = ReturnsNone
    /\ Len(df) = 3

\* The rows of df that meet every constraint that was supplied.
Matching(r, c) ==
    {i \in DOMAIN df : /\ (Truthy(r) => df[i]["restaurant"] = r)
                       /\ (Truthy(c) => df[i]["food_category"] = c)}

\* C12: the filter of update_item_dropdown keeps exactly the rows that meet
\* every supplied constraint among restaurant and category, in table order;
\* an absent constraint restricts nothing, and with none all rows are kept.
\* The item options are the item names of those rows, each once, in sorted
\* order.
C12_FilterRows ==
    Answering("update_item_dropdown") =>
        LET r == call.selected_restaurant
            c == call.selected_category
            kept == filtered_items(df, r, c)
        IN  /\ Len(kept) = Cardinality(Matching(r, c))
            /\ \A k \in DOMAIN kept : \E i \in Matching(r, c) : kept[k] = df[i]
            /\ \A i \in Matching(r, c) : \E k \in DOMAIN kept : kept[k] = df[i]
            /\ \A j, k \in DOMAIN kept :
                  j < k => kept[j]["index"] < kept[k]["index"]
            /\ (~Truthy(r) /\ ~Truthy(c)) => kept = df
            /\ out.kind = "options"
            /\ {out.options[k] : k \in DOMAIN out.options}
                   = {df[i]["item_name"] : i \in Matching(r, c)}
            /\ \A j, k \in DOMAIN out.options :
                  j < k => Rank[out.options[j]] < Rank[out.options[k]]

C12_Witness ==
    /\ Answering("update_item_dropdown")
    /\ call.selected_restaurant = "R1"
    /\ call.selected_category = "c2"
    /\ out.options = <<"B">>
    /\ "A" \in unique(Eq(df, "restaurant", "R1"), "item_name")
    /\ "A" \in unique(Eq(df, "food_category", "c2"), "item_name")

(***************************************************************************)
(* Claims about the Explore page, checked under SpecExplore.               *)
(***************************************************************************)
\* Every queued callback has been called since the user last chose an item.
Settled == page.pending = {}
ItemChosen == Settled /\ page.last = "item" /\ Truthy(page.item)

\* C13: once the user has chosen an item and the callbacks it starts have
\* run, whatever restaurant and category were selected before, some row of
\* the table has the selected restaurant, food_category and item_name, and
\* the item is among the item options shown.
C13_SelectionIsRow ==
    ItemChosen =>
        /\ \E i \in DOMAIN df : /\ df[i]["restaurant"] = page.restaurant
                                /\ df[i]["food_category"] = page.category
                                /\ df[i]["item_name"] = page.item
        /\ page.item \in {page.item_options[k] : k \in DOMAIN page.item_options}

\* C14: a change of the restaurant, category or item dropdown of the served
\* page queues callbacks, and after finitely many calls none is queued; the item
\* selection, which starts the autofill, changes only by the user's hand,
\* never by a callback.
C14_CascadeTerminates ==
    /\ (Loaded /\ ~Settled) ~> Settled
    /\ [][page'.item # page.item => Settled /\ ~Settled']_vars

C14_Witness ==
    /\ ItemChosen
    /\ page.restaurant = "R1"
    /\ page.category = "c1"
    /\ page.item_info.kind = "div"
    /\ page.map_src # ""

====
